---------------------------- MODULE Spec2Model ----------------------------
(***************************************************************************)
(* Model of the two windowed raster algorithms of scripts/utils.py:        *)
(*   glcm_texture(im, window, prop, gray_levels, normed)   lines 117-198   *)
(*   block_fn(x, center_val)                                lines 256-265  *)
(*   majority_filter(x, block_size)                         lines 268-288  *)
(*                                                                         *)
(* One behaviour of the model is one call of one of the two functions.     *)
(* Init draws the call's arguments; each action is one statement group of  *)
(* the function body; pc is the position in the body.  A call ends in      *)
(* pc = "returned" or in pc = "raised" (a Python exception left the call). *)
(*                                                                         *)
(* Array cells are floating point numbers.  A cell is a pair <<n, d>>:     *)
(* d > 0 is the rational n/d in lowest terms, <<0,0>> is NaN, <<1,0>> is   *)
(* +inf and <<-1,0>> is -inf.  Arrays are indexed from 0 as in the code.   *)
(* The pixel values and gray-level counts drawn by Init keep               *)
(* max/(gray_levels-1) and every quotient exactly representable in binary  *)
(* floating point, so rational arithmetic gives the float64 result.        *)
(*                                                                         *)
(* The scalar that greycoprops / shannon_entropy compute for a tile is     *)
(* library arithmetic over reals; an entry of `out` records the tile       *)
(* (i, j) whose scalar it holds, not the scalar.  `normed` only changes    *)
(* that scalar and is not modelled.                                        *)
(***************************************************************************)
EXTENDS Integers, Sequences, FiniteSets, TLC

VARIABLES
    fn,           \* which function is being called: "glcm_texture" | "majority_filter"
    pc,           \* position in the function body
    err,          \* the exception that left the call ("" while none)
    errLine,      \* source line the exception was raised from (0 while none)
    im,           \* glcm_texture: the caller's array (image = im is an alias, line 145)
    im0,          \* glcm_texture: the values of im when the call started
    window,       \* glcm_texture: <<y, x>>
    prop,         \* glcm_texture: property name
    gray_levels,  \* glcm_texture: gray_levels
    i, j,         \* loop variables of both functions
    ik, jk,       \* number of values already taken from the row / column range
    out,          \* glcm_texture: list `out`, one entry per processed tile
    i_num, j_num, \* glcm_texture: lists i_num, j_num
    j_bound,      \* glcm_texture: whether the local name j_num is bound
    tmax,         \* glcm_texture: sub_image.max() of the current tile
    scaled,       \* glcm_texture: quantized tile handed to greycomatrix
    quantized,    \* glcm_texture: number of tiles rescaled so far
    glcm_built,   \* glcm_texture: number of co-occurrence matrices built so far
    out_image,    \* glcm_texture: returned grid [shape, cells]
    x,            \* majority_filter: the caller's array
    x0,           \* majority_filter: the values of x when the call started
    block_size,   \* majority_filter: <<by, bx>>
    yy, xx,       \* majority_filter: half window extents
    miny, maxy, minx, maxx,  \* majority_filter: clamped window bounds
    block,        \* majority_filter: block.ravel() of the current pixel
    output,       \* majority_filter: output array
    processed     \* majority_filter: number of pixels written so far

vars == <<fn, pc, err, errLine, im, im0, window, prop, gray_levels, i, j, ik, jk,
          out, i_num, j_num, j_bound, tmax, scaled, quantized, glcm_built,
          out_image, x, x0, block_size, yy, xx, miny, maxy, minx, maxx, block,
          output, processed>>

glcmVars == <<im, im0, window, prop, gray_levels, out, i_num, j_num, j_bound,
              tmax, scaled, quantized, glcm_built, out_image>>

majVars == <<x, x0, block_size, yy, xx, miny, maxy, minx, maxx, block, output,
             processed>>

---------------------------------------------------------------------------
(* Bounds of the model *)

\* largest number of rows of an input array
MaxRows == 3

\* largest number of columns of an input array
MaxCols == 3

\* largest number of cells of an input array
MaxCells == 4

\* pixel values of glcm_texture inputs (negative, zero and positive)
Pixels == {-2, -1, 0, 2}

\* window dimensions tried for glcm_texture
WindowDims == {-2, 0, 1, 2}

\* gray-level counts tried
GrayLevels == {2, 3}

\* property names tried: the three supported ones and an unsupported one
Props == {"dissimilarity", "homogeneity", "entropy", "contrast"}

\* block dimensions tried for majority_filter
BlockDims == {-1, 0, 1, 2, 3}

\* categories of majority_filter inputs, besides NaN
Categories == {1, 2, 3}

---------------------------------------------------------------------------
(* Floating point cells *)

NaN == <<0, 0>>

NegInf == <<-1, 0>>

PosInf == <<1, 0>>

Num(k) == <<k, 1>>

IsFinite(a) == a[2] > 0

isnan(a) == a = NaN

Abs(n) == IF n < 0 THEN -n ELSE n

RECURSIVE Gcd(_, _)
Gcd(a, b) == IF b = 0 THEN a ELSE Gcd(b, a % b)

\* the rational n/d (d # 0) in lowest terms with a positive denominator
Frac(n, d) ==
    LET g == Gcd(Abs(n), Abs(d))
        s == IF d < 0 THEN -1 ELSE 1
    IN  <<(s * n) \div g, (s * d) \div g>>

\* IEEE division a / b of a finite a by a finite b (b = +0.0 when it is zero)
FDiv(a, b) ==
    IF b[1] = 0
    THEN IF a[1] = 0 THEN NaN ELSE IF a[1] > 0 THEN PosInf ELSE NegInf
    ELSE Frac(a[1] * b[2], a[2] * b[1])

\* a <= b for finite cells
FLeq(a, b) == a[1] * b[2] <= b[1] * a[2]

\* the shape of an array: <<rows, cols>>
Shape(a) ==
    LET rs == {p[1] : p \in DOMAIN a}
        cs == {p[2] : p \in DOMAIN a}
    IN  <<Cardinality(rs), Cardinality(cs)>>

\* every array of shape (h, w) with cells from S
Arrays(h, w, S) == [((0 .. h - 1) \X (0 .. w - 1)) -> S]

Shapes == {s \in (1 .. MaxRows) \X (1 .. MaxCols) : s[1] * s[2] <= MaxCells}

\* Python range(start, stop, step) for step # 0, as a sequence
range(start, stop, step) ==
    LET n == IF step > 0
             THEN IF stop > start THEN (stop - start + step - 1) \div step ELSE 0
             ELSE IF stop < start THEN (start - stop - step - 1) \div (-step) ELSE 0
    IN  [k \in 1 .. n |-> start + (k - 1) * step]

\* Python slice lo:hi on an axis of length n: the set of indices selected
SliceIdx(lo, hi, n) ==
    LET norm(v) == IF v < 0 THEN (IF v + n < 0 THEN 0 ELSE v + n)
                   ELSE (IF v > n THEN n ELSE v)
    IN  {k \in 0 .. n - 1 : norm(lo) <= k /\ k < norm(hi)}

Max2(a, b) == IF a >= b THEN a ELSE b

Min2(a, b) == IF a <= b THEN a ELSE b

---------------------------------------------------------------------------
(* glcm_texture *)

\* stand-ins for the int64 extremes -2^63 and 2^63-1, which lie outside the
\* integers TLC can hold; only their sign and their size against gray_levels matter
Int64Min == -2147483647

Int64Max == 2147483647

\* the ways a build converts a non-finite float to int64: the C cast numpy
\* performs is undefined for NaN and infinities (x86-64 yields INT64_MIN for
\* all of them, AArch64 saturates and maps NaN to 0)
Builds == {"x86_64", "aarch64"}

\* np.round_(a, 0): round half to even; NaN and infinities are kept
round_(a) ==
    IF ~IsFinite(a) THEN a
    ELSE LET f == a[1] \div a[2]
             r == a[1] - f * a[2]
         IN  IF 2 * r < a[2] THEN Num(f)
             ELSE IF 2 * r > a[2] THEN Num(f + 1)
             ELSE IF f % 2 = 0 THEN Num(f) ELSE Num(f + 1)

\* ndarray.astype(int) of a rounded cell on the given build
astype_int(a, build) ==
    IF IsFinite(a) THEN a[1]
    ELSE IF build = "x86_64" THEN Int64Min
    ELSE IF a = NaN THEN 0
    ELSE IF a = PosInf THEN Int64Max ELSE Int64Min

\* the lower-left-exclusive starts of the tiles along an axis of length n:
\* range(0, image.shape[k], step)
TileStartsNoPartial(n, step) == range(0, n - step + 1, step)

TileStarts(n, step) == range(0, n, step)

\* the cells of image[i:i+y, j:j+x]
TileCells(a, ti, tj, y, xw) ==
    SliceIdx(ti, ti + y, Shape(a)[1]) \X SliceIdx(tj, tj + xw, Shape(a)[2])

\* sub_image.max()
TileMax(a, cells) ==
    CHOOSE m \in {a[p] : p \in cells} : \A p \in cells : FLeq(a[p], m)

\* sub_image /= sub_image.max()/(gray_levels-1), written through the view
\* into the array the view aliases
RescaleInPlace(a, cells, L) ==
    LET q == FDiv(TileMax(a, cells), Num(L - 1))
    IN  [p \in DOMAIN a |-> IF p \in cells THEN FDiv(a[p], q) ELSE a[p]]

\* greycomatrix rejects an image with a negative value or a value >= levels
greycomatrix_rejects(sc, L) ==
    \/ \E p \in DOMAIN sc : sc[p] < 0
    \/ \E p \in DOMAIN sc : sc[p] >= L

SupportedProps == {"dissimilarity", "homogeneity", "entropy"}

Raise(kind, line) ==
    /\ pc' = "raised"
    /\ err' = kind
    /\ errLine' = line

NoRaise == UNCHANGED <<err, errLine>>

InitGlcm ==
    /\ fn = "glcm_texture"
    /\ \E s \in Shapes : im \in Arrays(s[1], s[2], {Num(v) : v \in Pixels})
    /\ im0 = im
    /\ window \in WindowDims \X WindowDims
    /\ prop \in Props
    /\ gray_levels \in GrayLevels
    /\ x = <<>> /\ x0 = <<>> /\ block_size = <<1, 1>>

InitMajority ==
    /\ fn = "majority_filter"
    /\ \E s \in Shapes :
          x \in Arrays(s[1], s[2], {Num(v) : v \in Categories} \cup {NaN})
    /\ x0 = x
    /\ block_size \in BlockDims \X BlockDims
    /\ im = <<>> /\ im0 = <<>> /\ window = <<1, 1>>
    /\ prop = "entropy" /\ gray_levels = 2

Init ==
    /\ pc = "start"
    /\ err = "" /\ errLine = 0
    /\ i = 0 /\ j = 0 /\ ik = 0 /\ jk = 0
    /\ out = <<>> /\ i_num = <<>> /\ j_num = <<>> /\ j_bound = FALSE
    /\ tmax = Num(0) /\ scaled = <<>> /\ quantized = 0 /\ glcm_built = 0
    /\ out_image = [shape |-> <<0, 0>>, cells |-> <<>>]
    /\ yy = 0 /\ xx = 0 /\ miny = 0 /\ maxy = 0 /\ minx = 0 /\ maxx = 0
    /\ block = <<>> /\ output = <<>> /\ processed = 0
    /\ (InitGlcm \/ InitMajority)

\* lines 145-148: image = im; y, x = window; out = []; i_num = []
GlcmEnter ==
    /\ fn = "glcm_texture" /\ pc = "start"
    /\ pc' = "outer"
    /\ UNCHANGED <<fn, err, errLine, i, j, ik, jk, glcmVars, majVars>>

\* line 149 (next row of tiles), line 150 (j_num = [])
GlcmOuter ==
    /\ fn = "glcm_texture" /\ pc = "outer"
    /\ IF window[1] = 0
       THEN /\ Raise("ValueError", 149)      \* range() arg 3 must not be zero
            /\ UNCHANGED <<i, ik, jk, j_num, j_bound>>
       ELSE LET rows == TileStarts(Shape(im)[1], window[1])
            IN  IF ik < Len(rows)
                THEN /\ i' = rows[ik + 1]
                     /\ ik' = ik + 1
                     /\ jk' = 0
                     /\ j_num' = <<>>
                     /\ j_bound' = TRUE
                     /\ pc' = "inner"
                     /\ NoRaise
                ELSE /\ pc' = "reshape"
                     /\ NoRaise
                     /\ UNCHANGED <<i, ik, jk, j_num, j_bound>>
    /\ UNCHANGED <<fn, j, im, im0, window, prop, gray_levels, out, i_num, tmax,
                   scaled, quantized, glcm_built, out_image, majVars>>

\* line 151 (next tile of the row), line 194 (i_num.append(i)) when the row ends
GlcmInner ==
    /\ fn = "glcm_texture" /\ pc = "inner"
    /\ IF window[2] = 0
       THEN /\ Raise("ValueError", 151)      \* range() arg 3 must not be zero
            /\ UNCHANGED <<j, jk, i_num>>
       ELSE LET cols == TileStarts(Shape(im)[2], window[2])
            IN  IF jk < Len(cols)
                THEN /\ j' = cols[jk + 1]
                     /\ jk' = jk + 1
                     /\ pc' = "quantize"
                     /\ NoRaise
                     /\ UNCHANGED i_num
                ELSE /\ i_num' = Append(i_num, i)
                     /\ pc' = "outer"
                     /\ NoRaise
                     /\ UNCHANGED <<j, jk>>
    /\ UNCHANGED <<fn, i, ik, im, im0, window, prop, gray_levels, out, j_num,
                   j_bound, tmax, scaled, quantized, glcm_built, out_image, majVars>>

\* lines 153-160: take the view, rescale it in place, round and cast
GlcmQuantize ==
    /\ fn = "glcm_texture" /\ pc = "quantize"
    /\ LET cells == TileCells(im, i, j, window[1], window[2])
           after == RescaleInPlace(im, cells, gray_levels)
       IN  /\ tmax' = TileMax(im, cells)
           /\ im' = after
           /\ \E build \in Builds :
                 scaled' = [p \in cells |-> astype_int(round_(after[p]), build)]
    /\ quantized' = quantized + 1
    /\ pc' = "glcm"
    /\ UNCHANGED <<fn, err, errLine, i, j, ik, jk, im0, window, prop, gray_levels,
                   out, i_num, j_num, j_bound, glcm_built, out_image, majVars>>

\* lines 163-169: greycomatrix(scaled, ..., levels=gray_levels, symmetric=True)
GlcmMatrix ==
    /\ fn = "glcm_texture" /\ pc = "glcm"
    /\ IF greycomatrix_rejects(scaled, gray_levels)
       THEN /\ Raise("ValueError", 163)
            /\ UNCHANGED glcm_built
       ELSE /\ glcm_built' = glcm_built + 1
            /\ pc' = "texture"
            /\ NoRaise
    /\ UNCHANGED <<fn, i, j, ik, jk, im, im0, window, prop, gray_levels, out,
                   i_num, j_num, j_bound, tmax, scaled, quantized, out_image, majVars>>

\* lines 173-193: property dispatch, out.append(texture.mean()), j_num.append(j)
GlcmTexture ==
    /\ fn = "glcm_texture" /\ pc = "texture"
    /\ IF prop \in SupportedProps
       THEN /\ out' = Append(out, <<i, j>>)
            /\ j_num' = Append(j_num, j)
            /\ pc' = "inner"
            /\ NoRaise
       ELSE /\ Raise("ValueError", 185)      \* "Property should be defined as ..."
            /\ UNCHANGED <<out, j_num>>
    /\ UNCHANGED <<fn, i, j, ik, jk, im, im0, window, prop, gray_levels, i_num,
                   j_bound, tmax, scaled, quantized, glcm_built, out_image, majVars>>

\* lines 197-198: np.array(out).reshape(len(i_num), len(j_num)); return
GlcmReshape ==
    /\ fn = "glcm_texture" /\ pc = "reshape"
    /\ IF ~j_bound
       THEN /\ Raise("UnboundLocalError", 197)   \* j_num was never assigned
            /\ UNCHANGED out_image
       ELSE IF Len(out) # Len(i_num) * Len(j_num)
       THEN /\ Raise("ValueError", 197)          \* cannot reshape
            /\ UNCHANGED out_image
       ELSE /\ out_image' = [shape |-> <<Len(i_num), Len(j_num)>>, cells |-> out]
            /\ pc' = "returned"
            /\ NoRaise
    /\ UNCHANGED <<fn, i, j, ik, jk, im, im0, window, prop, gray_levels, out,
                   i_num, j_num, j_bound, tmax, scaled, quantized, glcm_built,
                   majVars>>

GlcmNext ==
    \/ GlcmEnter
    \/ GlcmOuter
    \/ GlcmInner
    \/ GlcmQuantize
    \/ GlcmMatrix
    \/ GlcmTexture
    \/ GlcmReshape

---------------------------------------------------------------------------
(* block_fn and majority_filter *)

\* the order np.unique sorts by: ascending, NaN after every number
SortsBefore(a, b) ==
    IF isnan(a) THEN FALSE
    ELSE IF isnan(b) THEN TRUE
    ELSE a[1] * b[2] < b[1] * a[2]

\* np.unique(x.ravel(), return_counts=True)[0]: the distinct values, sorted;
\* all NaN entries are one value (numpy's equal_nan=True default)
unique_elements(blk) ==
    LET vals == {blk[k] : k \in DOMAIN blk}
        rank(v) == Cardinality({u \in vals : SortsBefore(u, v)}) + 1
    IN  [r \in 1 .. Cardinality(vals) |-> CHOOSE v \in vals : rank(v) = r]

\* np.unique(x.ravel(), return_counts=True)[1]
counts_elements(blk) ==
    LET u == unique_elements(blk)
    IN  [r \in DOMAIN u |-> Cardinality({k \in DOMAIN blk : blk[k] = u[r]})]

\* a wrong argmax: the last index of the largest entry
argmaxLast(c) ==
    CHOOSE k \in DOMAIN c :
        /\ \A m \in DOMAIN c : c[m] <= c[k]
        /\ \A m \in DOMAIN c : m > k => c[m] < c[k]

\* np.argmax(c) of a non-empty c: the first index of the largest entry
argmax(c) ==
    CHOOSE k \in DOMAIN c :
        /\ \A m \in DOMAIN c : c[m] <= c[k]
        /\ \A m \in DOMAIN c : m < k => c[m] < c[k]

\* block_fn raises when np.argmax gets an empty sequence (line 265)
block_fn_raises(blk, center_val) ==
    /\ ~isnan(center_val)
    /\ center_val # Num(1)
    /\ blk = <<>>

\* block_fn without the NaN test of line 260
block_fn_no_nan_test(blk, center_val) ==
    IF center_val = Num(1) THEN Num(1)
    ELSE IF blk = <<>> THEN center_val
    ELSE unique_elements(blk)[argmax(counts_elements(blk))]

\* block_fn without the center_val == 1 test of line 262
block_fn_no_one_test(blk, center_val) ==
    IF isnan(center_val) \/ blk = <<>> THEN center_val
    ELSE unique_elements(blk)[argmax(counts_elements(blk))]

\* block_fn(x, center_val) where it does not raise, lines 256-265
block_fn(blk, center_val) ==
    IF isnan(center_val) THEN NaN
    ELSE IF center_val = Num(1) THEN Num(1)
    ELSE unique_elements(blk)[argmax(counts_elements(blk))]

\* int(v / 2) for an integer v: true division, then truncation toward zero
IntHalf(v) == IF v >= 0 THEN v \div 2 ELSE -((-v) \div 2)

\* a lower window bound without the clamp at 0
WindowLoUnclamped(c, half) == c - half

\* max(0, i-yy) of lines 279 and 282
WindowLo(c, half) == Max2(0, c - half)

\* min(x.shape[k]-1, i+yy) of lines 279 and 282
WindowHi(c, half, n) == Min2(n - 1, c + half)

\* x[miny:maxy+1, minx:maxx+1].ravel(): the selected cells in row-major order
Ravel(a, lo_y, hi_y, lo_x, hi_x) ==
    LET rs == SliceIdx(lo_y, hi_y + 1, Shape(a)[1])
        cs == SliceIdx(lo_x, hi_x + 1, Shape(a)[2])
        cells == rs \X cs
        pos(p) == Cardinality({q \in cells :
                      q[1] < p[1] \/ (q[1] = p[1] /\ q[2] <= p[2])})
    IN  [k \in 1 .. Cardinality(cells) |->
            a[CHOOSE p \in cells : pos(p) = k]]

\* lines 272-277: the assertion, yy, xx, output = np.zeros_like(x)
MajEnter ==
    /\ fn = "majority_filter" /\ pc = "start"
    /\ IF block_size[1] % 2 # 0 /\ block_size[2] % 2 # 0
       THEN /\ yy' = IntHalf(block_size[1] - 1)
            /\ xx' = IntHalf(block_size[2] - 1)
            /\ output' = [p \in DOMAIN x |-> Num(0)]
            /\ pc' = "rows"
            /\ NoRaise
       ELSE /\ Raise("AssertionError", 272)
            /\ UNCHANGED <<yy, xx, output>>
    /\ UNCHANGED <<fn, i, j, ik, jk, glcmVars, x, x0, block_size, miny, maxy,
                   minx, maxx, block, processed>>

\* lines 278-279: next row, miny, maxy; line 288 when the rows are exhausted
MajRow ==
    /\ fn = "majority_filter" /\ pc = "rows"
    /\ LET rows == range(0, Shape(x)[1], 1)
       IN  IF ik < Len(rows)
           THEN /\ i' = rows[ik + 1]
                /\ ik' = ik + 1
                /\ jk' = 0
                /\ miny' = WindowLo(rows[ik + 1], yy)
                /\ maxy' = WindowHi(rows[ik + 1], yy, Shape(x)[1])
                /\ pc' = "cols"
           ELSE /\ pc' = "returned"
                /\ UNCHANGED <<i, ik, jk, miny, maxy>>
    /\ UNCHANGED <<fn, err, errLine, j, glcmVars, x, x0, block_size, yy, xx,
                   minx, maxx, block, output, processed>>

\* lines 281-285: next column, minx, maxx, the block
MajCol ==
    /\ fn = "majority_filter" /\ pc = "cols"
    /\ LET cols == range(0, Shape(x)[2], 1)
       IN  IF jk < Len(cols)
           THEN LET c  == cols[jk + 1]
                    lo == WindowLo(c, xx)
                    hi == WindowHi(c, xx, Shape(x)[2])
                IN  /\ j' = c
                    /\ jk' = jk + 1
                    /\ minx' = lo
                    /\ maxx' = hi
                    /\ block' = Ravel(x, miny, maxy, lo, hi)
                    /\ pc' = "vote"
           ELSE /\ pc' = "rows"
                /\ UNCHANGED <<j, jk, minx, maxx, block>>
    /\ UNCHANGED <<fn, err, errLine, i, ik, glcmVars, x, x0, block_size, yy, xx,
                   miny, maxy, output, processed>>

\* line 287: output[i,j] = block_fn(block, center_val=x[i,j])
MajVote ==
    /\ fn = "majority_filter" /\ pc = "vote"
    /\ IF block_fn_raises(block, x[<<i, j>>])
       THEN /\ Raise("ValueError", 265)   \* argmax of an empty sequence
            /\ UNCHANGED <<output, processed>>
       ELSE /\ output' = [output EXCEPT ![<<i, j>>] = block_fn(block, x[<<i, j>>])]
            /\ processed' = processed + 1
            /\ pc' = "cols"
            /\ NoRaise
    /\ UNCHANGED <<fn, i, j, ik, jk, glcmVars, x, x0, block_size, yy, xx, miny,
                   maxy, minx, maxx, block>>

MajNext ==
    \/ MajEnter
    \/ MajRow
    \/ MajCol
    \/ MajVote

Next == GlcmNext \/ MajNext

Spec == Init /\ [][Next]_vars

---------------------------------------------------------------------------
(* Properties *)

GlcmReturned == fn = "glcm_texture" /\ pc = "returned"

MajReturned == fn = "majority_filter" /\ pc = "returned"

\* pixel (i, j) of majority_filter has just been written from `block`
JustVoted == fn = "majority_filter" /\ pc = "cols" /\ jk > 0

PositiveBlock == block_size[1] > 0 /\ block_size[2] > 0

\* the cells of x within (by-1)/2 rows and (bx-1)/2 columns of (r, c)
Neighbourhood(r, c) ==
    {p \in DOMAIN x :
        /\ 2 * Abs(p[1] - r) <= block_size[1] - 1
        /\ 2 * Abs(p[2] - c) <= block_size[2] - 1}

Occurrences(v, cells) == Cardinality({p \in cells : x[p] = v})

\* C1: when glcm_texture returns for a window (wy, wx) of positive integers,
\* the grid has ceil(rows/wy) rows and ceil(cols/wx) columns, and its cell
\* (a, b) belongs to the tile that starts at row a*wy and column b*wx, a
\* partial tile at the bottom or right border included.
C1_TextureGridShape ==
    (GlcmReturned /\ window[1] > 0 /\ window[2] > 0) =>
        LET H == Shape(im0)[1]
            W == Shape(im0)[2]
            r == out_image.shape[1]
            c == out_image.shape[2]
        IN  /\ (r - 1) * window[1] < H /\ H <= r * window[1]
            /\ (c - 1) * window[2] < W /\ W <= c * window[2]
            /\ Len(out_image.cells) = r * c
            /\ \A a \in 0 .. r - 1 : \A b \in 0 .. c - 1 :
                  out_image.cells[a * c + b + 1] = <<a * window[1], b * window[2]>>

\* a call returned a grid whose last row of tiles is a partial tile
C1_Witness ==
    /\ GlcmReturned
    /\ window = <<2, 1>>
    /\ Shape(im0) = <<3, 1>>
    /\ out_image.shape = <<2, 1>>

\* C2: a pixel that is neither NaN nor 1 gets the value with the highest
\* count in its clamped window, NaN entries counted like any value; among
\* values sharing the highest count it gets the smallest (a number before NaN).
C2_MajorityVote ==
    (JustVoted /\ PositiveBlock /\ ~isnan(x[<<i, j>>]) /\ x[<<i, j>>] # Num(1)) =>
        LET win  == Neighbourhood(i, j)
            v    == output[<<i, j>>]
        IN  /\ \E p \in win : x[p] = v
            /\ \A p \in win :
                  /\ Occurrences(x[p], win) <= Occurrences(v, win)
                  /\ (Occurrences(x[p], win) = Occurrences(v, win) /\ x[p] # v) =>
                        (~isnan(v) /\ (isnan(x[p]) \/ v[1] < x[p][1]))

\* the window {2,2,3,3} is a two-way tie and the pixel got 2
C2_Witness ==
    /\ JustVoted
    /\ block_size = <<3, 3>>
    /\ Shape(x) = <<2, 2>>
    /\ Occurrences(Num(2), DOMAIN x) = 2
    /\ Occurrences(Num(3), DOMAIN x) = 2
    /\ output[<<i, j>>] = Num(2)

\* C3: every NaN pixel of the input is NaN in the output, as soon as it is
\* written and in the returned array, whatever its neighbours.
C3_NaNPreserved ==
    /\ (JustVoted /\ isnan(x[<<i, j>>])) => isnan(output[<<i, j>>])
    /\ MajReturned => \A p \in DOMAIN x0 : isnan(x0[p]) => isnan(output[p])

\* a returned call whose input has one NaN pixel among pixels of category 2
C3_Witness ==
    /\ MajReturned
    /\ block_size = <<3, 3>>
    /\ Occurrences(NaN, DOMAIN x) = 1
    /\ Occurrences(Num(2), DOMAIN x) = 3

\* C4: every pixel of category 1 of the input is 1 in the output, as soon as
\* it is written and in the returned array, whatever its neighbours.
C4_OnePreserved ==
    /\ (JustVoted /\ x[<<i, j>>] = Num(1)) => output[<<i, j>>] = Num(1)
    /\ MajReturned => \A p \in DOMAIN x0 : x0[p] = Num(1) => output[p] = Num(1)

\* a returned call whose input has one pixel of category 1 among pixels of
\* category 3, which win every vote
C4_Witness ==
    /\ MajReturned
    /\ block_size = <<3, 3>>
    /\ Occurrences(Num(1), DOMAIN x) = 1
    /\ Occurrences(Num(3), DOMAIN x) = 3

\* C5: when glcm_texture raises the unsupported-property error, no tile has
\* been quantized, no co-occurrence matrix has been built and the caller's
\* array holds the values it held before the call.
C5_UnsupportedPropertyFirst ==
    (fn = "glcm_texture" /\ pc = "raised" /\ errLine = 185) =>
        /\ quantized = 0
        /\ glcm_built = 0
        /\ im = im0

\* C6: a tile whose maximum is zero is not divided by that maximum and is not
\* carried into the co-occurrence step or a cell of the output grid.
C6_DegenerateWindowReported ==
    (fn = "glcm_texture" /\ pc \in {"glcm", "texture"}) => tmax # Num(0)

\* C7: after a call of glcm_texture or majority_filter, returned or raised,
\* every cell of the caller's array holds the value it held before the call.
C7_InputUnchanged ==
    pc \in {"returned", "raised"} => (im = im0 /\ x = x0)

\* C8: a window with a non-positive dimension, and for majority_filter a
\* block_size whose dimensions are not both odd, never yields a returned grid
\* and never fails from inside the per-window work.
C8_InvalidWindowRejected ==
    LET badGlcm == /\ fn = "glcm_texture"
                   /\ (window[1] <= 0 \/ window[2] <= 0)
        badMaj  == /\ fn = "majority_filter"
                   /\ \/ block_size[1] <= 0 \/ block_size[2] <= 0
                      \/ block_size[1] % 2 = 0 \/ block_size[2] % 2 = 0
    IN  (badGlcm \/ badMaj) =>
            /\ pc # "returned"
            /\ pc = "raised" =>
                  /\ processed = 0 /\ quantized = 0
                  /\ errLine \notin {163, 185, 265}

\* C9: every value of the quantized tile of a tile with a non-zero maximum,
\* as handed to the co-occurrence step, is an integer in [0, gray_levels-1].
C9_QuantizedInRange ==
    (fn = "glcm_texture" /\ pc = "glcm" /\ tmax # Num(0)) =>
        \A p \in DOMAIN scaled : 0 <= scaled[p] /\ scaled[p] <= gray_levels - 1

\* C10: with a positive odd block_size the window of pixel (i, j) is rows
\* max(0, i-(by-1)/2) .. min(H-1, i+(by-1)/2) and the like for columns: it
\* contains (i, j), lies inside the array, holds exactly the cells of x in
\* that rectangle, and is the full by-by-bx block away from the borders.
C10_ClampedWindow ==
    (fn = "majority_filter" /\ pc = "vote" /\ PositiveBlock) =>
        LET H  == Shape(x)[1]
            W  == Shape(x)[2]
            hy == (block_size[1] - 1) \div 2
            hx == (block_size[2] - 1) \div 2
            w  == maxx - minx + 1
        IN  /\ 0 <= miny /\ miny <= i /\ i <= maxy /\ maxy <= H - 1
            /\ 0 <= minx /\ minx <= j /\ j <= maxx /\ maxx <= W - 1
            /\ miny = (IF i - hy < 0 THEN 0 ELSE i - hy)
            /\ maxy = (IF i + hy > H - 1 THEN H - 1 ELSE i + hy)
            /\ minx = (IF j - hx < 0 THEN 0 ELSE j - hx)
            /\ maxx = (IF j + hx > W - 1 THEN W - 1 ELSE j + hx)
            /\ Len(block) = (maxy - miny + 1) * w
            /\ \A k \in 1 .. Len(block) :
                  block[k] = x[<<miny + ((k - 1) \div w), minx + ((k - 1) % w)>>]
            /\ (i >= hy /\ i + hy <= H - 1 /\ j >= hx /\ j + hx <= W - 1) =>
                  Len(block) = block_size[1] * block_size[2]

\* a pixel with a row above and a row below it sees the full 3-by-1 block,
\* and the pixel of the top row of the same array sees a window cut to 2 rows
C10_Witness ==
    /\ fn = "majority_filter" /\ pc = "vote"
    /\ block_size = <<3, 1>>
    /\ Shape(x) = <<3, 1>>
    /\ i = 1
    /\ Len(block) = 3
    /\ processed = 1

===========================================================================
